---- MODULE Spec2Model ----
(***************************************************************************)
(* A model of task.ts, the caching task runner: the two sqlite tables, the *)
(* working tree, the manifest's cache flags and the call stack of runTask  *)
(* of each runner process.                                                 *)
(***************************************************************************)
EXTENDS Integers, Sequences, FiniteSets, TLC

\* ------------------------------------------------------------------ bounds

\* Number of rows table task_cache holds at a time.
MaxRows == 2

\* Number of edits of the working tree and of tasks.json made between runs,
\* and of kills of a runner process.
MaxEdits == 1

\* Number of nested calls of runTask the call stack of the engine holds.
MaxDepth == 4

\* ------------------------------------------------------- the environment

\* The runner processes; Spec runs one of them at a time.
Procs == {1, 2}

\* Files of the working tree the tasks name.
Paths == {"out.txt", "src.txt"}

\* Order of a.localeCompare(b) on the paths.
PathOrder == <<"out.txt", "src.txt">>

\* Order in which Glob.scan() yields the files of the directory.
ScanOrder == <<"src.txt", "out.txt">>

\* The glob patterns of the manifest and the paths each can match.
GlobMatches == [p \in {"*.txt"} |-> {"out.txt", "src.txt"}]

\* File contents, as byte sequences: "h", and two bytes that are not UTF-8.
Contents == {<<104>>, <<254>>, <<255>>}

\* What a path holds: a file with bytes, or nothing that can be read.
NoFile == [exists |-> FALSE, bytes |-> <<>>]
File(b) == [exists |-> TRUE, bytes |-> b]
FileStates == {NoFile} \cup {File(b) : b \in Contents}

\* What somebody makes of a path between runs: deletes it, or writes bytes
\* no command writes.
Edited == {NoFile, File(<<255>>)}

\* What a run of a command can do: print "o1" and write the file "h" to a
\* path its task declares as output, or print "o2" and touch nothing.
Outcomes == { [stdout |-> "o1", writes |-> TRUE],
              [stdout |-> "o2", writes |-> FALSE] }

\* The working trees a behaviour starts from: src.txt is a binary file,
\* out.txt is not there yet.
InitialTrees ==
  { [p \in Paths |-> IF p = "src.txt" THEN File(<<254>>) ELSE NoFile] }

\* tasks.json: the graph handed to runTask.
scripts ==
  [ gen    |-> [command |-> "gen.sh", depends_on |-> <<>>,
                inputs |-> <<"src.txt">>, outputs |-> <<"out.txt">>],
    lint   |-> [command |-> "lint.sh", depends_on |-> <<"gen">>,
                inputs |-> <<"*.txt">>, outputs |-> <<>>],
    build  |-> [command |-> "build.sh", depends_on |-> <<"gen", "lint">>,
                inputs |-> <<"out.txt", "*.txt">>,
                outputs |-> <<"*.txt", "out.txt">>],
    deploy |-> [command |-> "deploy.sh", depends_on |-> <<"gen", "missing", "lint">>,
                inputs |-> <<>>, outputs |-> <<>>],
    ping   |-> [command |-> "ping.sh", depends_on |-> <<"pong">>,
                inputs |-> <<>>, outputs |-> <<>>],
    pong   |-> [command |-> "pong.sh", depends_on |-> <<"ping">>,
                inputs |-> <<>>, outputs |-> <<>>] ]

TaskNames == DOMAIN scripts

\* The cache fields tasks.json starts with: "true", "false", or "unset" for a
\* task that has no such field.
InitialCache ==
  [ gen |-> "unset", lint |-> "false", build |-> "true", deploy |-> "unset",
    ping |-> "unset", pong |-> "unset" ]

RECURSIVE Completes(_, _)
\* The recursion of runTask from name comes back within depth calls: every
\* name it reaches is a task, and it reaches no cycle.
Completes(name, depth) ==
  /\ depth > 0
  /\ name \in TaskNames
  /\ \A i \in 1..Len(scripts[name].depends_on) :
       Completes(scripts[name].depends_on[i], depth - 1)

\* The tasks whose runs the history variables can follow: those a run of
\* which can complete.
Watched == {t \in TaskNames : Completes(t, Cardinality(TaskNames))}

\* Names given on the command line.
ArgNames == TaskNames \cup {"nosuch"}
VARIABLES
  fs,           \* working tree: path -> FileStates
  cache,        \* tasks.json: task name -> value of its cache field
  task_cache,   \* rows of table task_cache, in rowid order
  task_output,  \* rows of table task_output, in rowid order
  stack,        \* per process: the frames of runTask, outermost first
  status,       \* per process: "idle", "running", "exit0", "exit1", "killed"
  edits,        \* number of edits made between runs, and of kills, so far
  event,        \* history: what the step that led to this state did
  lastRun,      \* history: the last completed runTask of the watched task
  wiped,        \* history: a reset deleted rows of the watched task, and the
                \* command of the task did not run since
  restored      \* history: the record the watched task restored last and
                \* whether that met a failure, while the tree is untouched

vars == <<fs, cache, task_cache, task_output, stack, status, edits, event,
          lastRun, wiped, restored>>

\* ----------------------------------------------------------------- hashing

NoHash == [alg |-> "null", of |-> <<>>]

\* new Bun.CryptoHasher('sha256').update(x).digest('base64'): injective on x.
Digest(bytes) == [alg |-> "sha256", of |-> bytes]

\* UTF-8 decoding of Bun.file(f).text(): an ASCII byte is its code point, a
\* byte that can start no UTF-8 sequence becomes U+FFFD.
Utf8Decode(bytes) ==
  [i \in 1..Len(bytes) |-> IF bytes[i] < 128 THEN bytes[i] ELSE 65533]

RECURSIVE Utf8Encode(_)
\* The bytes hasher.update(string) hashes: the UTF-8 encoding of the string.
Utf8Encode(text) ==
  IF text = <<>> THEN <<>>
  ELSE (IF Head(text) < 128 THEN <<Head(text)>> ELSE <<239, 191, 189>>)
       \o Utf8Encode(Tail(text))

\* ---------------------------------------------------------------- patterns

IsGlob(pattern) == pattern \in DOMAIN GlobMatches

\* pattern.includes('*') ? new Glob(pattern).scan() : [pattern]
Files(pattern, tree) ==
  IF IsGlob(pattern)
    THEN SelectSeq(ScanOrder,
                   LAMBDA f : f \in GlobMatches[pattern] /\ tree[f].exists)
    ELSE <<pattern>>

RECURSIVE Resolve(_, _)
\* The file paths the two nested loops visit, in order.
Resolve(patterns, tree) ==
  IF patterns = <<>> THEN <<>>
  ELSE Files(Head(patterns), tree) \o Resolve(Tail(patterns), tree)

Range(s) == {s[i] : i \in 1..Len(s)}

\* Keys of a JS object in insertion order: the first occurrence of each.
Keys(s) == SelectSeq([i \in 1..Len(s) |->
                        IF \E j \in 1..(i-1) : s[j] = s[i] THEN "" ELSE s[i]],
                     LAMBDA f : f # "")

\* --------------------------------------------------------- the fingerprint

\* Variant of getMaybeFileHash: the digest of the file's text, as hashInputs
\* takes it.
getMaybeFileHashOfText(file) ==
  IF file.exists THEN Digest(Utf8Encode(Utf8Decode(file.bytes))) ELSE NoHash

\* getMaybeFileHash: null for no bytes, else the digest of the bytes.
getMaybeFileHash(file) == IF file.exists THEN Digest(file.bytes) ELSE NoHash

\* The digest hashInputs stores for one readable file: of its text.
TextHash(file) == Digest(Utf8Encode(Utf8Decode(file.bytes)))

\* Variant of hashInputs: a file that cannot be read gets an entry with a
\* null digest.
hashInputsNullEntries(task, tree) ==
  LET read   == Range(Resolve(task.inputs, tree))
      sorted == SelectSeq(PathOrder, LAMBDA f : f \in read)
  IN  [command |-> task.command,
       files   |-> [i \in 1..Len(sorted) |->
                      [path |-> sorted[i],
                       hash |-> IF tree[sorted[i]].exists
                                  THEN TextHash(tree[sorted[i]]) ELSE NoHash]]]

\* Variant of hashInputs: the entries are not sorted, they stay in the order
\* in which the files were first read.
hashInputsUnsorted(task, tree) ==
  LET read == SelectSeq(Keys(Resolve(task.inputs, tree)),
                        LAMBDA f : tree[f].exists)
  IN  [command |-> task.command,
       files   |-> [i \in 1..Len(read) |->
                      [path |-> read[i], hash |-> TextHash(tree[read[i]])]]]

\* JSON.stringify({command, files: <entries sorted by path>}); a file that
\* cannot be read is left out.
hashInputs(task, tree) ==
  LET read   == {f \in Range(Resolve(task.inputs, tree)) : tree[f].exists}
      sorted == SelectSeq(PathOrder, LAMBDA f : f \in read)
  IN  [command |-> task.command,
       files   |-> [i \in 1..Len(sorted) |->
                      [path |-> sorted[i], hash |-> TextHash(tree[sorted[i]])]]]

NoFingerprint == [command |-> "", files |-> <<>>]

\* What the working tree holds at every path the input patterns can name.
InputView(task, tree) ==
  LET named == {f \in Paths : \E i \in 1..Len(task.inputs) :
                   \/ task.inputs[i] = f
                   \/ IsGlob(task.inputs[i]) /\ f \in GlobMatches[task.inputs[i]]}
      sorted == SelectSeq(PathOrder, LAMBDA f : f \in named)
  IN  [i \in 1..Len(sorted) |-> [path |-> sorted[i], file |-> tree[sorted[i]]]]

\* ------------------------------------------------------------ the tables

\* Variant of Lookup: .get(inputsHash, script_name), the two values bound to
\* the wrong placeholders.
LookupSwapped(rows, name, inputs) ==
  LET hits == {i \in 1..Len(rows) :
                 rows[i].task_name = inputs.command /\ rows[i].inputs.command = name}
  IN  IF hits = {} THEN 0 ELSE CHOOSE i \in hits : \A j \in hits : i <= j

\* SELECT * FROM task_cache WHERE task_name = ? AND inputs = ?  (.get: the
\* first row, 0 for null)
Lookup(rows, name, inputs) ==
  LET hits == {i \in 1..Len(rows) :
                 rows[i].task_name = name /\ rows[i].inputs = inputs}
  IN  IF hits = {} THEN 0 ELSE CHOOSE i \in hits : \A j \in hits : i <= j

\* The rows the SELECT on task_cache matches. There is no ORDER BY: when
\* there are several, .get may return any of them.
Matches(rows, name, inputs) ==
  {i \in 1..Len(rows) : rows[i].task_name = name /\ rows[i].inputs = inputs}

\* SELECT * FROM task_output WHERE task_id = ?
OutputsOf(rows, id) == SelectSeq(rows, LAMBDA r : r.task_id = id)

\* Variant of CacheEnabled: task.cache ?? false.
CacheEnabledDefaultOff(flag) == flag = "true"

\* task.cache ?? true
CacheEnabled(flag) == flag # "false"

\* Variant of prepareOutputs: the entries are kept in a list, one for every
\* time a pattern yields the path.
prepareOutputsRepeated(task, tree) ==
  LET keys == Resolve(task.outputs, tree)
  IN  [i \in 1..Len(keys) |-> [path |-> keys[i], content |-> tree[keys[i]]]]

\* Variant of prepareOutputs: a path that cannot be read gets no entry.
prepareOutputsReadable(task, tree) ==
  LET keys == SelectSeq(Keys(Resolve(task.outputs, tree)),
                        LAMBDA f : tree[f].exists)
  IN  [i \in 1..Len(keys) |-> [path |-> keys[i], content |-> tree[keys[i]]]]

\* prepareOutputs: path -> bytes or null, keys in insertion order.
prepareOutputs(task, tree) ==
  LET keys == Keys(Resolve(task.outputs, tree))
  IN  [i \in 1..Len(keys) |-> [path |-> keys[i], content |-> tree[keys[i]]]]

\* The task_output rows runTask inserts for the captured outputs.
OutputRows(id, outputs) ==
  [i \in 1..Len(outputs) |->
     [task_id |-> id, path |-> outputs[i].path,
      hash    |-> IF outputs[i].content.exists
                    THEN Digest(outputs[i].content.bytes) ELSE NoHash,
      content |-> outputs[i].content]]

\* Variant of resetDatabase: only the second DELETE is run.
resetDatabaseOutputsOnly(cacheRows, outputRows) ==
  [task_cache |-> cacheRows, task_output |-> <<>>]

\* resetDatabase: DELETE FROM task_cache; DELETE FROM task_output;
resetDatabase(cacheRows, outputRows) ==
  [task_cache |-> <<>>, task_output |-> <<>>]

\* ------------------------------------------------------- restoreFromCache

RECURSIVE restoreFromCacheIfPresent(_, _, _)
\* Variant of restoreFromCache: a path that holds no file counts as
\* unchanged and is skipped.
restoreFromCacheIfPresent(rows, tree, bad) ==
  IF rows = <<>>
    THEN [tree |-> tree, wrote |-> {}, cleared |-> {}, failed |-> FALSE,
          threw |-> FALSE]
  ELSE
    LET row == Head(rows)
        path == row.path
    IN
    IF row.hash = NoHash \/ ~row.content.exists
      THEN IF tree[path].exists /\ path \notin bad
             THEN LET rest == restoreFromCacheIfPresent(Tail(rows),
                                [tree EXCEPT ![path] = NoFile], bad)
                  IN  [rest EXCEPT !.cleared = @ \cup {path}]
             ELSE LET rest == restoreFromCacheIfPresent(Tail(rows), tree, bad)
                  IN  [rest EXCEPT !.failed = @ \/ tree[path].exists]
    ELSE IF ~tree[path].exists \/ Digest(tree[path].bytes) = row.hash
      THEN restoreFromCacheIfPresent(Tail(rows), tree, bad)
    ELSE IF path \in bad
      THEN [tree |-> tree, wrote |-> {}, cleared |-> {}, failed |-> TRUE,
            threw |-> TRUE]
    ELSE LET rest == restoreFromCacheIfPresent(Tail(rows),
                       [tree EXCEPT ![path] = row.content], bad)
         IN  [rest EXCEPT !.wrote = @ \cup {path}]

RECURSIVE restoreFromCache(_, _, _)
\* The loop over the rows of one record. bad: the paths whose unlink or
\* write fails. A failed unlink is caught, a failed write is thrown.
\* Result: the tree, the paths written and deleted, whether an operation
\* failed and whether the function threw.
restoreFromCache(rows, tree, bad) ==
  IF rows = <<>>
    THEN [tree |-> tree, wrote |-> {}, cleared |-> {}, failed |-> FALSE,
          threw |-> FALSE]
  ELSE
    LET row == Head(rows)
        path == row.path
    IN
    IF row.hash = NoHash \/ ~row.content.exists
      THEN IF tree[path].exists /\ path \notin bad
             THEN LET rest == restoreFromCache(Tail(rows),
                                [tree EXCEPT ![path] = NoFile], bad)
                  IN  [rest EXCEPT !.cleared = @ \cup {path}]
             ELSE LET rest == restoreFromCache(Tail(rows), tree, bad)
                  IN  [rest EXCEPT !.failed = @ \/ tree[path].exists]
    ELSE IF getMaybeFileHash(tree[path]) = row.hash
      THEN restoreFromCache(Tail(rows), tree, bad)
    ELSE IF path \in bad
      THEN [tree |-> tree, wrote |-> {}, cleared |-> {}, failed |-> TRUE,
            threw |-> TRUE]
    ELSE LET rest == restoreFromCache(Tail(rows),
                       [tree EXCEPT ![path] = row.content], bad)
         IN  [rest EXCEPT !.wrote = @ \cup {path}]

\* ------------------------------------------------------------------ frames

\* One activation of runTask. pc: "deps" (in the loop over depends_on, or
\* about to hash), "restore" (cache hit), "exec" (cache miss, command not yet
\* run), "outputs" (record inserted, outputs not yet captured). done: the
\* dependencies whose runTask has returned.
NewFrame(name) ==
  [name |-> name, pc |-> "deps", dep |-> 1, done |-> <<>>,
   inputsHash |-> NoFingerprint, cachedId |-> 0, stdout |-> "", taskId |-> 0]

Top(p) == stack[p][Len(stack[p])]

Running(p) == status[p] = "running"

InFrame(p, pc) == Running(p) /\ stack[p] # <<>> /\ Top(p).pc = pc

AllIdle == \A p \in Procs : ~Running(p)

\* The stack with its top frame changed to f.
WithTop(stk, f) == [stk EXCEPT ![Len(stk)] = f]

\* Variant of NextDep: the loop steps over the dependency that follows.
NextDepSkips(dep) == dep + 2

\* The dependency index after `await runTask(scripts, dependency)` returns.
NextDep(dep) == dep + 1

\* runTask returns: the frame is popped and the caller's loop moves on.
Returned(stk) ==
  LET n == Len(stk)
  IN  IF n = 1 THEN <<>>
      ELSE Append(SubSeq(stk, 1, n - 2),
                  [stk[n - 1] EXCEPT !.dep = NextDep(@),
                                     !.done = Append(@, stk[n].name)])

\* Variant of Throw: the exception is caught where it is raised and runTask
\* returns as if the task had finished.
ThrowCaught(p) ==
  /\ stack' = [stack EXCEPT ![p] = Returned(@)]
  /\ UNCHANGED status

\* An exception nothing catches: every frame is abandoned, the process ends
\* with a non-zero exit code.
Throw(p) ==
  /\ stack' = [stack EXCEPT ![p] = <<>>]
  /\ status' = [status EXCEPT ![p] = "exit1"]

\* ----------------------------------------------------------------- history

\* event: kind is "" for a step that reports nothing, else "reset",
\* "NotFound", "TypeError", "RangeError", "ShellError", "killed", "saved" (the outputs of
\* record id
\* were captured) or "restore" (record id was restored: the paths written
\* and deleted, whether an unlink or a write failed, whether the write threw,
\* whether the last restore by the watched task, with no change of the tree
\* since, was of the same record (repeat) and met a failure (afterFailure)).
NoEvent ==
  [kind |-> "", proc |-> 0, id |-> 0, wrote |-> {}, cleared |-> {},
   failed |-> FALSE, threw |-> FALSE, repeat |-> FALSE, afterFailure |-> FALSE]

Event(kind, p) == [NoEvent EXCEPT !.kind = kind, !.proc = p]

NoRestore == [id |-> 0, failed |-> FALSE]

NoRun(t) == [task |-> t, ran |-> FALSE, inputs |-> NoFingerprint,
             stdout |-> "", cache |-> FALSE]

\* lastRun after runTask of frame f returned, having reported or captured out
\* under cache field flag: kept for the watched task.
Completed(f, out, flag) ==
  IF f.name = lastRun.task
    THEN [task |-> f.name, ran |-> TRUE, inputs |-> f.inputsHash,
          stdout |-> out, cache |-> CacheEnabled(flag)]
    ELSE lastRun

\* ------------------------------------------------------------------- Init

Init ==
  /\ fs \in InitialTrees
  /\ cache = InitialCache
  /\ task_cache = <<>>
  /\ task_output = <<>>
  /\ stack = [p \in Procs |-> <<>>]
  /\ status = [p \in Procs |-> "idle"]
  /\ edits = 0
  /\ event = NoEvent
  /\ lastRun \in {NoRun(t) : t \in Watched}
  /\ wiped = FALSE
  /\ restored = NoRestore

\* ------------------------------------------------------ top-level dispatch

\* Variant of Known: the name is not looked up.
KnownAlways(name) == TRUE

\* scripts[name] is a task.
Known(name) == name \in DOMAIN scripts

\* args.length < 1: usage(), process.exit(1)
Usage(p) ==
  /\ ~Running(p)
  /\ status' = [status EXCEPT ![p] = "exit1"]
  /\ event' = NoEvent
  /\ UNCHANGED <<fs, cache, task_cache, task_output, stack, edits, lastRun,
                 wiped, restored>>

\* script_name === 'reset': resetDatabase(), process.exit(0)
Reset(p) ==
  /\ ~Running(p)
  /\ LET r == resetDatabase(task_cache, task_output)
     IN  /\ task_cache' = r.task_cache
         /\ task_output' = r.task_output
  /\ status' = [status EXCEPT ![p] = "exit0"]
  /\ event' = Event("reset", p)
  /\ wiped' = (wiped \/ \E i \in 1..Len(task_cache) :
                           task_cache[i].task_name = lastRun.task)
  /\ lastRun' = NoRun(lastRun.task)
  /\ restored' = NoRestore
  /\ UNCHANGED <<fs, cache, stack, edits>>

\* !scripts[script_name]: error, usage(), process.exit(1)
NotFound(p, arg) ==
  /\ ~Running(p)
  /\ ~Known(arg)
  /\ status' = [status EXCEPT ![p] = "exit1"]
  /\ event' = Event("NotFound", p)
  /\ UNCHANGED <<fs, cache, task_cache, task_output, stack, edits, lastRun,
                 wiped, restored>>

\* The stack after runTask(scripts, name) is called.
Entered(stk, name) == Append(stk, NewFrame(name))

\* await runTask(scripts, script_name), from the top level
Start(p, arg) ==
  /\ ~Running(p)
  /\ Known(arg)
  /\ stack' = [stack EXCEPT ![p] = Entered(@, arg)]
  /\ status' = [status EXCEPT ![p] = "running"]
  /\ event' = NoEvent
  /\ UNCHANGED <<fs, cache, task_cache, task_output, edits, lastRun, wiped,
                 restored>>

\* await $`sqlite3 cache.sqlite .dump > cache.sql`, then the process ends;
\* the shell command may fail.
Dump(p) ==
  /\ Running(p)
  /\ stack[p] = <<>>
  /\ \E code \in {"exit0", "exit1"} : status' = [status EXCEPT ![p] = code]
  /\ event' = NoEvent
  /\ UNCHANGED <<fs, cache, task_cache, task_output, stack, edits, lastRun,
                 wiped, restored>>

\* ---------------------------------------------------------------- runTask

\* randomUUIDv7(): an id that no row, no frame and no history value holds.
\* An id nothing refers to any more is handed out again.
randomUUIDv7 ==
  LET used == {task_cache[i].id : i \in 1..Len(task_cache)}
              \cup {task_output[i].task_id : i \in 1..Len(task_output)}
              \cup {restored.id}
              \cup UNION {{stack[p][i].cachedId : i \in 1..Len(stack[p])}
                           \cup {stack[p][i].taskId : i \in 1..Len(stack[p])} :
                           p \in Procs}
  IN  CHOOSE i \in 1..(MaxRows + Cardinality(Procs) + 1) :
        i \notin used /\ \A j \in 1..(i - 1) : j \in used

\* The working trees the command of task name can leave with outcome oc.
Leaves(name, oc) ==
  LET declared == {f \in Paths : \E i \in 1..Len(scripts[name].outputs) :
                      scripts[name].outputs[i] = f}
  IN  IF oc.writes /\ declared # {}
        THEN {[fs EXCEPT ![f] = File(<<104>>)] : f \in declared}
        ELSE {fs}

\* for (const dependency of task.depends_on) await runTask(scripts, dependency)
\* runTask reads scripts[dependency].depends_on on entry: for a name that is
\* not in scripts that throws a TypeError. The calls nest without an await
\* in between: when the call stack is full the call throws a RangeError.
CallDependency(p) ==
  /\ InFrame(p, "deps")
  /\ Top(p).dep <= Len(scripts[Top(p).name].depends_on)
  /\ LET d == scripts[Top(p).name].depends_on[Top(p).dep]
     IN  IF ~Known(d)
           THEN Throw(p) /\ event' = Event("TypeError", p)
         ELSE IF Len(stack[p]) >= MaxDepth
           THEN Throw(p) /\ event' = Event("RangeError", p)
         ELSE /\ stack' = [stack EXCEPT ![p] = Entered(@, d)]
              /\ event' = NoEvent
              /\ UNCHANGED status
  /\ UNCHANGED <<fs, cache, task_cache, task_output, edits, lastRun, wiped,
                 restored>>

\* hashInputs(task), then the SELECT: a hit goes on to restoreFromCache, a
\* miss to the command.
HashAndLookup(p) ==
  /\ InFrame(p, "deps")
  /\ Top(p).dep > Len(scripts[Top(p).name].depends_on)
  /\ LET name == Top(p).name
         h    == hashInputs(scripts[name], fs)
         f    == [Top(p) EXCEPT !.inputsHash = h]
     IN  \E i \in IF Lookup(task_cache, name, h) = 0
                     THEN {0} ELSE Matches(task_cache, name, h) :
           stack' = [stack EXCEPT ![p] = WithTop(@,
                       IF i = 0
                         THEN [f EXCEPT !.pc = "exec"]
                         ELSE [f EXCEPT !.pc = "restore",
                                        !.cachedId = task_cache[i].id,
                                        !.stdout = task_cache[i].stdout])]
  /\ event' = NoEvent
  /\ UNCHANGED <<fs, cache, task_cache, task_output, status, edits, lastRun,
                 wiped, restored>>

\* Cache hit: restoreFromCache(cachedTask.id), print the stored stdout,
\* return. A write that fails throws out of runTask.
Restore(p) ==
  /\ InFrame(p, "restore")
  /\ \E bad \in SUBSET Paths :
       LET f == Top(p)
           r == restoreFromCache(OutputsOf(task_output, f.cachedId), fs, bad)
       IN  /\ fs' = r.tree
           /\ event' = [kind |-> "restore", proc |-> p, id |-> f.cachedId,
                        wrote |-> r.wrote, cleared |-> r.cleared,
                        failed |-> r.failed, threw |-> r.threw,
                        repeat |-> (restored.id = f.cachedId),
                        afterFailure |-> restored.failed]
           /\ restored' = IF f.name = lastRun.task
                            THEN [id |-> f.cachedId, failed |-> r.failed]
                            ELSE IF r.tree = fs THEN restored ELSE NoRestore
           /\ IF r.threw
                THEN Throw(p) /\ UNCHANGED lastRun
                ELSE /\ stack' = [stack EXCEPT ![p] = Returned(@)]
                     /\ lastRun' = Completed(f, f.stdout, cache[f.name])
                     /\ UNCHANGED status
  /\ UNCHANGED <<cache, task_cache, task_output, edits, wiped>>

\* Cache miss: the command runs and succeeds with outcome oc. With caching on
\* the task_cache row is inserted at once; with caching off runTask returns.
Exec(p) ==
  /\ InFrame(p, "exec")
  /\ \E oc \in Outcomes : \E tree \in Leaves(Top(p).name, oc) :
       LET f == Top(p)
       IN  /\ fs' = tree
           /\ restored' = IF tree = fs THEN restored ELSE NoRestore
           /\ wiped' = (wiped /\ f.name # lastRun.task)
           /\ IF CacheEnabled(cache[f.name])
                THEN /\ Len(task_cache) < MaxRows
                     /\ task_cache' = Append(task_cache,
                          [id |-> randomUUIDv7, task_name |-> f.name,
                           inputs |-> f.inputsHash, stdout |-> oc.stdout])
                     /\ stack' = [stack EXCEPT ![p] = WithTop(@,
                          [f EXCEPT !.pc = "outputs", !.stdout = oc.stdout,
                                    !.taskId = randomUUIDv7])]
                     /\ UNCHANGED lastRun
                ELSE /\ stack' = [stack EXCEPT ![p] = Returned(@)]
                     /\ lastRun' = Completed(f, oc.stdout, cache[f.name])
                     /\ UNCHANGED task_cache
  /\ event' = NoEvent
  /\ UNCHANGED <<cache, task_output, status, edits>>

\* Cache miss: the command fails (non-zero exit), whatever it wrote before;
\* $`...`.text() throws.
ExecFail(p) ==
  /\ InFrame(p, "exec")
  /\ \E oc \in Outcomes : \E tree \in Leaves(Top(p).name, oc) :
       /\ fs' = tree
       /\ restored' = IF tree = fs THEN restored ELSE NoRestore
  /\ Throw(p)
  /\ event' = Event("ShellError", p)
  /\ UNCHANGED <<cache, task_cache, task_output, edits, lastRun, wiped>>

\* prepareOutputs(task), one task_output row for each entry, return.
SaveOutputs(p) ==
  /\ InFrame(p, "outputs")
  /\ LET f == Top(p)
     IN  /\ task_output' = task_output \o
              OutputRows(f.taskId, prepareOutputs(scripts[f.name], fs))
         /\ stack' = [stack EXCEPT ![p] = Returned(@)]
         /\ lastRun' = Completed(f, f.stdout, cache[f.name])
         /\ event' = [Event("saved", p) EXCEPT !.id = f.taskId]
  /\ UNCHANGED <<fs, cache, task_cache, status, edits, wiped, restored>>

\* The process is killed in the middle of a run. Every db.run has committed
\* its row by itself, so whatever was inserted stays: in the loop over the
\* captured outputs any number of the rows. A restore has handled any number
\* of its rows, a command that was running may have written its file.
Kill(p) ==
  /\ Running(p)
  /\ edits < MaxEdits
  /\ edits' = edits + 1
  /\ IF InFrame(p, "outputs")
       THEN LET f    == Top(p)
                rows == OutputRows(f.taskId, prepareOutputs(scripts[f.name], fs))
            IN  /\ \E k \in 0..Len(rows) :
                     task_output' = task_output \o SubSeq(rows, 1, k)
                /\ UNCHANGED fs
     ELSE IF InFrame(p, "restore")
       THEN LET rows == OutputsOf(task_output, Top(p).cachedId)
            IN  /\ \E k \in 0..Len(rows) :
                     fs' = restoreFromCache(SubSeq(rows, 1, k), fs, {}).tree
                /\ UNCHANGED task_output
     ELSE IF InFrame(p, "exec")
       THEN /\ \E oc \in Outcomes : \E tree \in Leaves(Top(p).name, oc) :
                 fs' = tree
            /\ UNCHANGED task_output
     ELSE UNCHANGED <<fs, task_output>>
  /\ restored' = IF fs' = fs THEN restored ELSE NoRestore
  /\ stack' = [stack EXCEPT ![p] = <<>>]
  /\ status' = [status EXCEPT ![p] = "killed"]
  /\ event' = Event("killed", p)
  /\ UNCHANGED <<cache, task_cache, lastRun, wiped>>

\* ------------------------------------------------------- the environment

\* Between runs somebody writes or deletes a file of the working tree.
EditFile(path, v) ==
  /\ AllIdle
  /\ edits < MaxEdits
  /\ fs[path] # v
  /\ fs' = [fs EXCEPT ![path] = v]
  /\ edits' = edits + 1
  /\ event' = NoEvent
  /\ restored' = NoRestore
  /\ UNCHANGED <<cache, task_cache, task_output, stack, status, lastRun,
                 wiped>>

\* Between runs somebody switches the cache field of a task in tasks.json
\* (of a task a run of which can complete: no other task gets as far as
\* reading the field).
SetCache(t) ==
  /\ AllIdle
  /\ edits < MaxEdits
  /\ cache' = [cache EXCEPT ![t] = IF CacheEnabled(@) THEN "false" ELSE "true"]
  /\ edits' = edits + 1
  /\ event' = NoEvent
  /\ UNCHANGED <<fs, task_cache, task_output, stack, status, lastRun, wiped,
                 restored>>

\* ------------------------------------------------------------ specification

Run(p) ==
  \/ Usage(p)
  \/ Reset(p)
  \/ \E arg \in ArgNames : NotFound(p, arg)
  \/ \E arg \in ArgNames : Start(p, arg)
  \/ CallDependency(p)
  \/ HashAndLookup(p)
  \/ Restore(p)
  \/ Exec(p)
  \/ ExecFail(p)
  \/ SaveOutputs(p)
  \/ Dump(p)
  \/ Kill(p)

Env ==
  \/ \E path \in Paths, v \in Edited : EditFile(path, v)
  \/ \E t \in Watched : SetCache(t)

\* One runner process at a time.
Next == Run(1) \/ Env

Spec == Init /\ [][Next]_vars

\* What a running process does by itself.
Progress(p) ==
  \/ CallDependency(p)
  \/ HashAndLookup(p)
  \/ Restore(p)
  \/ Exec(p)
  \/ ExecFail(p)
  \/ SaveOutputs(p)
  \/ Dump(p)

\* The runner left to itself: run after run, with nobody editing the working
\* tree or tasks.json in between.
Unattended == Run(1)

\* The engine keeps running a process that can go on, and commands end.
FairSpec == Init /\ [][Unattended]_vars /\ WF_vars(Progress(1))

\* What a process does that is started, again and again, to run task gen.
Race(p) ==
  \/ Start(p, "gen")
  \/ HashAndLookup(p)
  \/ Restore(p)
  \/ Exec(p)
  \/ SaveOutputs(p)
  \/ Dump(p)

ConcInit == Init /\ lastRun = NoRun("gen")

ConcNext == \E p \in Procs : Race(p)

\* Two runner processes that run the same task at the same time, on the same
\* store and working tree.
ConcSpec == ConcInit /\ [][ConcNext]_vars

\* ------------------------------------------------------------- properties

\* The frames of process p that run the watched task.
WatchedFrames(p) ==
  {i \in 1..Len(stack[p]) : stack[p][i].name = lastRun.task}

\* Process p runs the watched task again, right after lookup, and computed
\* the fingerprint the completed run before it computed; no reset in between.
SecondRun(p) ==
  /\ stack[p] # <<>>
  /\ Top(p).name = lastRun.task
  /\ Top(p).pc \in {"restore", "exec"}
  /\ lastRun.ran
  /\ Top(p).inputsHash = lastRun.inputs

\* C1, as stated: whatever the task, a second run with the same fingerprint
\* is a cache hit, so the command is not run again, and the stdout it reports
\* is the stdout of the first run.
C1_AnyTaskSecondRunHits ==
  \A p \in Procs :
    SecondRun(p) => Top(p).pc = "restore" /\ Top(p).stdout = lastRun.stdout

\* C1, amended: when caching was enabled for the task in the first run, a
\* second run with the same fingerprint is a cache hit, so the command is not
\* run again, and the stdout it reports is the stdout of the first run.
C1_CachedSecondRunHits ==
  \A p \in Procs :
    SecondRun(p) /\ lastRun.cache
      => Top(p).pc = "restore" /\ Top(p).stdout = lastRun.stdout

\* A second run of a cached task that hit.
C1_Witness ==
  \E p \in Procs : SecondRun(p) /\ lastRun.cache /\ Top(p).pc = "restore"

\* C2, as stated: over any step, the fingerprint of a task stays the same if
\* and only if the content of every file its input patterns name stays the
\* same.
C2_SameFingerprintIffSameInputs ==
  [][\A t \in TaskNames :
       (hashInputs(scripts[t], fs') = hashInputs(scripts[t], fs))
         <=> (InputView(scripts[t], fs') = InputView(scripts[t], fs))]_vars

\* C3: the step of reset leaves both tables empty, and once a reset deleted
\* the records of a task, no run of the task is a cache hit before its command
\* ran again.
C3_ResetClearsEverything ==
  /\ event.kind = "reset" => task_cache = <<>> /\ task_output = <<>>
  /\ wiped => \A p \in Procs : \A i \in WatchedFrames(p) :
                stack[p][i].pc # "restore"

\* After a reset that deleted its records, the task missed and is about to
\* run its command.
C3_Witness ==
  wiped /\ \E p \in Procs : InFrame(p, "exec") /\ Top(p).name = lastRun.task

\* C4: in every activation of runTask the dependencies that have returned
\* are the listed ones up to the loop index, in listed order; the activation
\* is past its dependency loop only when all of them have returned; and an
\* activation that waits for a dependency is in its dependency loop, the
\* activation above it being the one of the dependency the loop is at, so
\* that at most one activation is past its dependency phase.
C4_DependencyOrdering ==
  \A p \in Procs : \A i \in 1..Len(stack[p]) :
    LET f    == stack[p][i]
        deps == scripts[f.name].depends_on
    IN  /\ f.dep \in 1..(Len(deps) + 1)
        /\ f.done = SubSeq(deps, 1, f.dep - 1)
        /\ f.pc # "deps" => f.done = deps
        /\ i < Len(stack[p]) =>
              /\ f.pc = "deps"
              /\ f.dep <= Len(deps)
              /\ stack[p][i + 1].name = deps[f.dep]

\* build is past its dependency loop, gen and lint having returned in order.
C4_Witness ==
  \E p \in Procs :
    /\ stack[p] # <<>>
    /\ Top(p).name = "build"
    /\ Top(p).pc \in {"restore", "exec"}
    /\ Top(p).done = <<"gen", "lint">>

\* The task_output rows of record id that hold content / that hold none.
ContentRows(id) ==
  {i \in 1..Len(task_output) :
     task_output[i].task_id = id /\ task_output[i].content.exists}

AbsenceRows(id) ==
  {i \in 1..Len(task_output) :
     task_output[i].task_id = id /\ ~task_output[i].content.exists}

\* C5: after a restore of a record that met no failure of an unlink or a
\* write, every path of the record with stored content holds exactly the
\* stored bytes.
C5_RestorePostcondition ==
  event.kind = "restore" /\ ~event.failed
    => \A i \in ContentRows(event.id) :
         fs[task_output[i].path] = task_output[i].content

\* A restore with no failure that had to write a file: the path was absent
\* or held other bytes.
C5_Witness ==
  /\ event.kind = "restore"
  /\ ~event.failed
  /\ event.wrote # {}
  /\ \A i \in ContentRows(event.id) :
       fs[task_output[i].path] = task_output[i].content

TaskOf(id) ==
  LET i == CHOOSE i \in 1..Len(task_cache) : task_cache[i].id = id
  IN  task_cache[i].task_name

\* When the outputs of a record are captured, every path the task declares
\* by name that holds no file gets a row with a null hash and null content.
AbsenceCaptured ==
  event.kind = "saved"
    => LET outputs == scripts[TaskOf(event.id)].outputs
       IN  \A j \in 1..Len(outputs) :
             ~IsGlob(outputs[j]) /\ ~fs[outputs[j]].exists
               => \E i \in AbsenceRows(event.id) :
                    /\ task_output[i].path = outputs[j]
                    /\ task_output[i].hash = NoHash

C8_DisabledNeverHits ==
  \A p \in Procs :
    /\ \A i \in 1..Len(stack[p]) :
         stack[p][i].pc = "outputs" => CacheEnabled(cache[stack[p][i].name])
    /\ SecondRun(p) /\ ~lastRun.cache => Top(p).pc = "exec"

\* C9: the step in which the command of a task fails leaves both tables as
\* they were, so that no record of the task and fingerprint exists and the
\* records of the dependencies that completed stay; it abandons every
\* activation of the run, the waiting dependents included, ends the process
\* with a failure, and completes no run.
C9_CommandFailureIsFatal ==
  [][event'.kind = "ShellError" =>
       LET p == event'.proc
       IN  /\ InFrame(p, "exec")
           /\ task_cache' = task_cache
           /\ task_output' = task_output
           /\ Lookup(task_cache', Top(p).name, Top(p).inputsHash) = 0
           /\ stack'[p] = <<>>
           /\ status'[p] = "exit1"
           /\ lastRun' = lastRun]_vars

\* A command failed and the run ended in failure, the record of a dependency
\* that completed before being kept.
C9_Witness ==
  /\ event.kind = "ShellError"
  /\ status[event.proc] = "exit1"
  /\ stack[event.proc] = <<>>
  /\ task_cache # <<>>

\* C10: no activation of runTask and no row of task_cache is ever for a name
\* that is not in the graph, and the step that meets such a name, at top
\* level or in a depends_on list, abandons every activation and ends the
\* process with a failure.
C10_UnknownTaskIsFatal ==
  /\ \A p \in Procs : \A i \in 1..Len(stack[p]) :
       stack[p][i].name \in TaskNames
  /\ \A i \in 1..Len(task_cache) : task_cache[i].task_name \in TaskNames
  /\ event.kind \in {"NotFound", "TypeError"}
       => stack[event.proc] = <<>> /\ status[event.proc] = "exit1"

\* A run met an unknown name in a depends_on list, after the dependency
\* listed before it completed and left its record.
C10_Witness ==
  /\ event.kind = "TypeError"
  /\ status[event.proc] = "exit1"
  /\ \E i \in 1..Len(task_cache) : task_cache[i].task_name = "gen"

\* The paths task name declares as outputs by name, not by a glob pattern.
NamedOutputs(name) ==
  {f \in Paths : \E j \in 1..Len(scripts[name].outputs) :
     scripts[name].outputs[j] = f}

\* C11, as stated: the record a lookup returns has a snapshot, of content or
\* of absence, for every output path its task declares by name.
C11_HitRecordsAreComplete ==
  \A p \in Procs : \A i \in 1..Len(stack[p]) :
    stack[p][i].pc = "restore"
      => \A f \in NamedOutputs(stack[p][i].name) :
           \E k \in 1..Len(task_output) :
             /\ task_output[k].task_id = stack[p][i].cachedId
             /\ task_output[k].path = f

\* The sequences that hold the entries of s in some order.
Reorderings(s) ==
  LET n == Len(s)
  IN  {[i \in 1..n |-> s[g[i]]] :
         g \in {h \in [1..n -> 1..n] : \A i, j \in 1..n : h[i] = h[j] => i = j}}

\* The task with other input patterns.
WithInputs(task, inputs) == [task EXCEPT !.inputs = inputs]

\* Every working tree: what each path holds.
Trees == [Paths -> FileStates]

\* Over the tree, the fingerprint of the task stays the same when the input
\* patterns are listed in another order, when they are all listed twice, and
\* when a file they resolve to is listed once more by name.
OrderFree(task, tree) ==
  LET h == hashInputs(task, tree)
  IN  /\ \A q \in Reorderings(task.inputs) :
           hashInputs(WithInputs(task, q), tree) = h
      /\ hashInputs(WithInputs(task, task.inputs \o task.inputs), tree) = h
      /\ \A f \in Range(Resolve(task.inputs, tree)) :
           hashInputs(WithInputs(task, Append(task.inputs, f)), tree) = h

\* hashInputs is OrderFree for every task over every working tree.
OrderFreeEverywhere ==
  \A t \in TaskNames : \A tree \in Trees : OrderFree(scripts[t], tree)

\* C12: the fingerprint an activation has just computed is the value of
\* hashInputs on the working tree of that state, and for every task and over
\* every working tree the fingerprint stays the same when the input patterns
\* are listed in another order, when they are all listed twice, and when a
\* file they resolve to is listed once more by name.
C12_FingerprintDeterminism ==
  /\ \A p \in Procs :
       stack[p] # <<>> /\ Top(p).pc \in {"restore", "exec"}
         => Top(p).inputsHash = hashInputs(scripts[Top(p).name], fs)
  /\ OrderFreeEverywhere

\* build has computed its fingerprint over a tree in which both of its input
\* patterns resolve to out.txt.
C12_Witness ==
  \E p \in Procs :
    /\ stack[p] # <<>>
    /\ Top(p).name = "build"
    /\ Top(p).pc \in {"restore", "exec"}
    /\ fs["out.txt"].exists /\ fs["src.txt"].exists
    /\ Len(Top(p).inputsHash.files) = Cardinality(Paths)

\* C13, as stated: a restore in which an unlink or a write failed does not
\* throw, and the run it is part of goes on as a cache hit.
C13_RestoreFailuresNonFatal ==
  event.kind = "restore" /\ event.failed
    => ~event.threw /\ status[event.proc] = "running"

\* The fingerprint of the command of the task with no input at all.
CommandOnly(task) == hashInputs(WithInputs(task, <<>>), fs)

\* None of the files the input patterns of the task resolve to can be read.
AllUnreadable(task) ==
  \A f \in Range(Resolve(task.inputs, fs)) : ~fs[f].exists

\* C14: a task none of whose inputs can be read has the fingerprint of its
\* command with no inputs; an activation of such a task gets past hashing
\* with that fingerprint, and is a cache hit whenever a record of the task is
\* stored under it.
C14_UnreadableInputsExcluded ==
  /\ \A t \in TaskNames :
       AllUnreadable(scripts[t])
         => hashInputs(scripts[t], fs) = CommandOnly(scripts[t])
  /\ \A p \in Procs :
       /\ stack[p] # <<>>
       /\ Top(p).pc \in {"restore", "exec"}
       /\ AllUnreadable(scripts[Top(p).name])
       => /\ Top(p).inputsHash = CommandOnly(scripts[Top(p).name])
          /\ (\E i \in 1..Len(task_cache) :
                 /\ task_cache[i].task_name = Top(p).name
                 /\ task_cache[i].inputs = CommandOnly(scripts[Top(p).name]))
               => Top(p).pc = "restore"

\* gen, its only input src.txt deleted, hits the record stored under the
\* fingerprint of its command alone.
C14_Witness ==
  \E p \in Procs :
    /\ stack[p] # <<>>
    /\ Top(p).name = "gen"
    /\ Top(p).pc = "restore"
    /\ ~fs["src.txt"].exists
    /\ Top(p).inputsHash = CommandOnly(scripts["gen"])

\* C15, as stated: within a run no activation is of a task that an
\* activation below it has already seen return.
C15_NoReentry ==
  \A p \in Procs : \A i, j \in 1..Len(stack[p]) :
    i < j => stack[p][j].name \notin Range(stack[p][i].done)

RECURSIVE Reaches(_, _, _)
\* Task name has target among its dependencies, or among theirs, and so on
\* for depth levels.
Reaches(name, target, depth) ==
  /\ depth > 0
  /\ name \in TaskNames
  /\ \E i \in 1..Len(scripts[name].depends_on) :
       \/ scripts[name].depends_on[i] = target
       \/ Reaches(scripts[name].depends_on[i], target, depth - 1)

\* The task lies on a dependency cycle.
OnCycle(name) == Reaches(name, name, Cardinality(TaskNames))

\* The run of process p is in a dependency cycle.
InCycle(p) == \E i \in 1..Len(stack[p]) : OnCycle(stack[p][i].name)

\* The kinds of event that end a run in failure.
Failures == {"TypeError", "RangeError", "ShellError", "killed"}

C17_RecordImmutability ==
  [][/\ \/ task_cache' = task_cache
        \/ event'.kind = "reset" /\ task_cache' = <<>>
        \/ \E p \in Procs :
             /\ InFrame(p, "exec")
             /\ cache[Top(p).name] # "false"
             /\ Lookup(task_cache, Top(p).name, Top(p).inputsHash) = 0
             /\ Len(task_cache') = Len(task_cache) + 1
             /\ SubSeq(task_cache', 1, Len(task_cache)) = task_cache
             /\ task_cache'[Len(task_cache')].task_name = Top(p).name
             /\ task_cache'[Len(task_cache')].inputs = Top(p).inputsHash
     /\ \A p \in Procs :
          /\ InFrame(p, "exec")
          /\ cache[Top(p).name] # "false"
          /\ status'[p] = "running"
          /\ stack'[p] # stack[p]
          => Len(task_cache') = Len(task_cache) + 1
     /\ event'.kind = "restore"
          => task_cache' = task_cache /\ task_output' = task_output]_vars

\* A cache hit has restored a record while the store holds two records.
C17_Witness ==
  /\ event.kind = "restore"
  /\ Len(task_cache) >= 2
  /\ \E i \in 1..Len(task_cache) : task_cache[i].id = event.id

\* C18: every row of task_output has a null hash exactly when it has null
\* content, its hash is otherwise the digest of its content, and no two rows
\* have the same task_id and path.
C18_HashContentLockstep ==
  /\ \A i \in 1..Len(task_output) :
       /\ task_output[i].hash = NoHash <=> ~task_output[i].content.exists
       /\ task_output[i].content.exists
            => task_output[i].hash = Digest(task_output[i].content.bytes)
  /\ \A i, j \in 1..Len(task_output) :
       /\ task_output[i].task_id = task_output[j].task_id
       /\ task_output[i].path = task_output[j].path
       => i = j

\* A record of build, both output patterns of which resolved to out.txt,
\* holds out.txt with its content.
C18_Witness ==
  \E i \in 1..Len(task_cache) : \E k \in 1..Len(task_output) :
    /\ task_cache[i].task_name = "build"
    /\ task_output[k].task_id = task_cache[i].id
    /\ task_output[k].path = "out.txt"
    /\ task_output[k].content.exists

\* C19: with one runner process at a time, no two rows of task_cache have
\* the same task_name and inputs.
C19_SingleWriterUniqueness ==
  \A i, j \in 1..Len(task_cache) :
    /\ task_cache[i].task_name = task_cache[j].task_name
    /\ task_cache[i].inputs = task_cache[j].inputs
    => i = j

\* Two records of one task, under two fingerprints.
C19_Witness ==
  \E i, j \in 1..Len(task_cache) :
    /\ task_cache[i].task_name = task_cache[j].task_name
    /\ task_cache[i].inputs # task_cache[j].inputs

\* The processes whose innermost activation missed on task name and
\* fingerprint inputs and has not inserted its row yet.
Missed(name, inputs) ==
  {p \in Procs : /\ InFrame(p, "exec")
                 /\ Top(p).name = name
                 /\ Top(p).inputsHash = inputs}

\* C20: with two processes, the rows that share a task_name and inputs,
\* together with the processes that missed on that pair and have yet to
\* insert, are never more than the processes: every row beyond the first
\* comes from a lookup that missed before the first insert. Rows that share
\* the pair are distinct records, and a lookup that hits holds the id and the
\* stdout of one of them.
C20_DuplicatesFromConcurrentMisses ==
  /\ \A i \in 1..Len(task_cache) :
       LET name   == task_cache[i].task_name
           inputs == task_cache[i].inputs
       IN  /\ Cardinality(Matches(task_cache, name, inputs))
                + Cardinality(Missed(name, inputs)) <= Cardinality(Procs)
           /\ \A j \in Matches(task_cache, name, inputs) :
                j # i => task_cache[j].id # task_cache[i].id
  /\ \A p \in Procs :
       InFrame(p, "restore")
         => \E i \in Matches(task_cache, Top(p).name, Top(p).inputsHash) :
              /\ task_cache[i].id = Top(p).cachedId
              /\ task_cache[i].stdout = Top(p).stdout

\* Both lookups missed and both processes inserted: two records share the
\* task_name and inputs, with different stdout, and of two later lookups one
\* returned the first record and the other the second.
C20_Witness ==
  /\ Len(task_cache) = 2
  /\ Matches(task_cache, task_cache[1].task_name, task_cache[1].inputs) = {1, 2}
  /\ task_cache[1].stdout # task_cache[2].stdout
  /\ InFrame(1, "restore") /\ Top(1).cachedId = task_cache[1].id
  /\ InFrame(2, "restore") /\ Top(2).cachedId = task_cache[2].id

====
